---- MODULE Spec2Model ----
(***************************************************************************)
(* Model of envfetch's interactive editor: the application state           *)
(* (interactive/state.rs), the per-mode key handlers and the tick          *)
(* (interactive/controller.rs), and the list browser (interactive.rs).     *)
(*                                                                         *)
(* A Rust String is a sequence of chars; its len() counts UTF-8 bytes, and *)
(* String::insert / String::remove take a byte index that has to lie on a  *)
(* char boundary, otherwise they panic.                                    *)
(***************************************************************************)
EXTENDS Integers, Sequences, FiniteSets, TLC

VARIABLES
    state,      \* the AppState record
    now,        \* the wall clock read by Instant::now(), in seconds
    panicked,   \* TRUE once a handler call has panicked (the process aborted)
    im,         \* the InteractiveMode record of the list browser
    called,     \* history: the last call made, <<function, argument>>
    before,     \* history: <<entries before it, key added, deleted since>>
                \* of the latest Add confirmation, while only navigation
                \* and one deletion have followed it
    pc,         \* where InteractiveMode::run stands: "idle" (not called),
                \* "top" (at the loop test), "read" (past the draw), "ok" or
                \* "err" (returned)
    env         \* the environment of the process: name -> None or Some(value)

vars == <<state, now, panicked, im, called, before, pc, env>>

----------------------------------------------------------------------------
(* Bounds of the model *)

\* longest text (in chars) the user types into one buffer
MaxLen == 2
\* most entries the list grows to through Add confirmations
MaxEntries == 3
\* last clock value the model lets the time advance to
MaxTime == 3
\* longest list the navigation is followed on
MaxRows == 21
\* longest text typed into a buffer where every kind of key is pressed
MaxTyped == 1
\* most entries the list holds there before an Add confirmation appends
MaxKept == 1
\* longest value (in chars) a variable of the process environment holds
MaxValue == 2

----------------------------------------------------------------------------
(* Text: chars, UTF-8 widths, String operations *)

\* "E9" stands for U+00E9, a char whose UTF-8 encoding takes two bytes
Chars == {"a", " ", "E9"}

len_utf8(c) == IF c = "E9" THEN 2 ELSE 1

is_whitespace(c) == c = " "

RECURSIVE len(_)
\* String::len: the length in bytes
len(s) == IF s = <<>> THEN 0 ELSE len_utf8(Head(s)) + len(Tail(s))

\* the byte offsets at which a char of s starts, and the end of s
Boundaries(s) == {len(SubSeq(s, 1, n)) : n \in 0..Len(s)}

is_char_boundary(s, idx) == idx \in Boundaries(s)

\* the number of chars of s that lie before the boundary idx
CharsBefore(s, idx) == CHOOSE n \in 0..Len(s) : len(SubSeq(s, 1, n)) = idx

\* String::insert panics unless idx is a char boundary (idx = len included)
InsertPanics(s, idx) == ~is_char_boundary(s, idx)

insert(s, idx, c) ==
    LET n == CharsBefore(s, idx)
    IN  SubSeq(s, 1, n) \o <<c>> \o SubSeq(s, n + 1, Len(s))

\* String::remove panics unless idx is the start of a char of s
RemovePanics(s, idx) == ~is_char_boundary(s, idx) \/ idx >= len(s)

remove(s, idx) ==
    LET n == CharsBefore(s, idx)
    IN  SubSeq(s, 1, n) \o SubSeq(s, n + 2, Len(s))

RECURSIVE trim_start(_)
trim_start(s) ==
    IF s # <<>> /\ is_whitespace(Head(s)) THEN trim_start(Tail(s)) ELSE s

RECURSIVE trim_end(_)
trim_end(s) ==
    IF s # <<>> /\ is_whitespace(s[Len(s)])
    THEN trim_end(SubSeq(s, 1, Len(s) - 1)) ELSE s

\* str::trim
trim(s) == trim_end(trim_start(s))

----------------------------------------------------------------------------
(* Option, Mode, key events *)

None == <<>>
Some(x) == <<x>>

ModeList == <<"List">>
ModeAdd == <<"Add">>
ModeEdit(k) == <<"Edit", k>>
ModeDelete(k) == <<"Delete", k>>

\* a.saturating_sub(b) on usize
saturating_sub(a, b) == IF a > b THEN a - b ELSE 0

\* a KeyEvent: its code, the char of KeyCode::Char, and the CONTROL modifier
Key(code) == [code |-> code, ch |-> "", ctrl |-> FALSE]
CharKey(c) == [code |-> "Char", ch |-> c, ctrl |-> FALSE]
CtrlKey(c) == [code |-> "Char", ch |-> c, ctrl |-> TRUE]

----------------------------------------------------------------------------
(* AppState *)

\* Duration::from_secs(2), the lifetime of every status message
MessageSecs == 2

\* the window of the Down handler
visible == 10

new(entries) ==
    [ mode |-> ModeList,
      should_quit |-> FALSE,
      entries |-> entries,
      current_index |-> 0,
      scroll_offset |-> 0,
      message |-> None,
      message_expiry |-> None,
      input_key |-> <<>>,
      input_value |-> <<>>,
      input_cursor_key |-> 0,
      input_cursor_value |-> 0,
      input_focus |-> "Key",
      reload_requested |-> FALSE ]

show_message(s, msg, duration, t) ==
    [s EXCEPT !.message = Some(msg), !.message_expiry = Some(t + duration)]

\* a slip: the expiry outlives the message
clear_message_KeepsExpiry(s) == [s EXCEPT !.message = None]


clear_message(s) ==
    [s EXCEPT !.message = None, !.message_expiry = None]

request_reload(s) == [s EXCEPT !.reload_requested = TRUE]

\* a slip: the reload leaves the request standing
reload_KeepsRequest(s, vs, t) ==
    show_message(
        [s EXCEPT !.entries = vs,
                  !.current_index = 0,
                  !.scroll_offset = 0],
        "List reloaded", MessageSecs, t)

\* reload, with `vs` what get_variables() returns
reload(s, vs, t) ==
    show_message(
        [s EXCEPT !.entries = vs,
                  !.current_index = 0,
                  !.scroll_offset = 0,
                  !.reload_requested = FALSE],
        "List reloaded", MessageSecs, t)

----------------------------------------------------------------------------
(* Controller: handle_list_mode, arm by arm *)

\* entries.get(current_index) is Some
Selected(s) == s.current_index < Len(s.entries)

\* a slip: 'a' opens the Add modal on the buffers as they were left
list_mode_add_KeepsBuffers(s) ==
    [s EXCEPT !.mode = ModeAdd, !.input_focus = "Key"]

list_mode_add(s) ==
    [s EXCEPT !.mode = ModeAdd,
              !.input_key = <<>>,
              !.input_value = <<>>,
              !.input_cursor_key = 0,
              !.input_cursor_value = 0,
              !.input_focus = "Key"]

\* a slip: 'e' seeds the value but leaves the cursor where it was
list_mode_edit_StaleCursor(s) ==
    IF Selected(s)
    THEN LET kv == s.entries[s.current_index + 1]
         IN  [s EXCEPT !.mode = ModeEdit(kv[1]),
                       !.input_value = kv[2]]
    ELSE s

list_mode_edit(s) ==
    IF Selected(s)
    THEN LET kv == s.entries[s.current_index + 1]
         IN  [s EXCEPT !.mode = ModeEdit(kv[1]),
                       !.input_value = kv[2],
                       !.input_cursor_value = len(kv[2])]
    ELSE s

\* a slip: 'd' removes the selected variable without asking
list_mode_delete_Unasked(s) ==
    IF Selected(s)
    THEN [s EXCEPT !.entries =
              SelectSeq(s.entries,
                        LAMBDA e : e[1] # s.entries[s.current_index + 1][1])]
    ELSE s

list_mode_delete(s) ==
    IF Selected(s)
    THEN [s EXCEPT !.mode = ModeDelete(s.entries[s.current_index + 1][1])]
    ELSE s

\* a slip: the window test of Down is off by one
list_mode_down_LateScroll(s) ==
    IF s.current_index < saturating_sub(Len(s.entries), 1)
    THEN LET i == s.current_index + 1
         IN  [s EXCEPT !.current_index = i,
                       !.scroll_offset = IF i > @ + visible THEN @ + 1 ELSE @]
    ELSE s


list_mode_down(s) ==
    IF s.current_index < saturating_sub(Len(s.entries), 1)
    THEN LET i == s.current_index + 1
         IN  [s EXCEPT !.current_index = i,
                       !.scroll_offset = IF i >= @ + visible THEN @ + 1 ELSE @]
    ELSE s

\* a slip: Up scrolls one row back instead of snapping to the selection
list_mode_up_ScrollsBack(s) ==
    IF s.current_index > 0
    THEN LET i == s.current_index - 1
         IN  [s EXCEPT !.current_index = i,
                       !.scroll_offset = saturating_sub(@, 1)]
    ELSE s

list_mode_up(s) ==
    IF s.current_index > 0
    THEN LET i == s.current_index - 1
         IN  [s EXCEPT !.current_index = i,
                       !.scroll_offset = IF i < @ THEN i ELSE @]
    ELSE s

handle_list_mode(s, key) ==
    CASE key.code = "Char" /\ key.ch = "q" /\ key.ctrl ->
            [s EXCEPT !.should_quit = TRUE]
      [] key.code = "Char" /\ key.ch = "a" -> list_mode_add(s)
      [] key.code = "Char" /\ key.ch = "e" -> list_mode_edit(s)
      [] key.code = "Char" /\ key.ch = "d" -> list_mode_delete(s)
      [] key.code = "Down" -> list_mode_down(s)
      [] key.code = "Up" -> list_mode_up(s)
      [] key.code = "Char" /\ key.ch = "r" /\ key.ctrl -> request_reload(s)
      [] OTHER -> s

----------------------------------------------------------------------------
(* Controller: text editing shared by handle_add_mode and handle_edit_mode *)

\* the (buffer, cursor) pair a key of the mode works on
Field(s, focus) ==
    IF focus = "Key"
    THEN [text |-> s.input_key, cursor |-> s.input_cursor_key]
    ELSE [text |-> s.input_value, cursor |-> s.input_cursor_value]

WithField(s, focus, f) ==
    IF focus = "Key"
    THEN [s EXCEPT !.input_key = f.text, !.input_cursor_key = f.cursor]
    ELSE [s EXCEPT !.input_value = f.text, !.input_cursor_value = f.cursor]

\* KeyCode::Left
field_left(f) == IF f.cursor > 0 THEN [f EXCEPT !.cursor = @ - 1] ELSE f

\* a slip: Right moves the cursor whatever the length of the text
field_right_Unguarded(f) == [f EXCEPT !.cursor = @ + 1]

\* KeyCode::Right
field_right(f) == IF f.cursor < len(f.text) THEN [f EXCEPT !.cursor = @ + 1] ELSE f

\* KeyCode::Backspace
field_backspace(f) ==
    IF f.cursor > 0
    THEN [text |-> remove(f.text, f.cursor - 1), cursor |-> f.cursor - 1]
    ELSE f

field_backspace_panics(f) == f.cursor > 0 /\ RemovePanics(f.text, f.cursor - 1)

\* KeyCode::Char(c)
field_char(f, c) == [text |-> insert(f.text, f.cursor, c), cursor |-> f.cursor + 1]

field_char_panics(f) == InsertPanics(f.text, f.cursor)

----------------------------------------------------------------------------
(* Controller: handle_add_mode *)

\* a slip: the buffers are stored as typed
add_mode_enter_Untrimmed(s, t) ==
    IF trim(s.input_key) # <<>>
    THEN [show_message(
             [s EXCEPT !.entries = Append(@, <<s.input_key, s.input_value>>)],
             "Variable added", MessageSecs, t)
          EXCEPT !.mode = ModeList]
    ELSE show_message(s, "Key cannot be empty", MessageSecs, t)

\* a slip: the emptiness test looks at the untrimmed key
add_mode_enter_BlankKey(s, t) ==
    IF s.input_key # <<>>
    THEN [show_message(
             [s EXCEPT !.entries =
                  Append(@, <<trim(s.input_key), trim(s.input_value)>>)],
             "Variable added", MessageSecs, t)
          EXCEPT !.mode = ModeList]
    ELSE show_message(s, "Key cannot be empty", MessageSecs, t)

\* a slip: a rejected Add closes the modal
add_mode_enter_ClosesOnReject(s, t) ==
    IF trim(s.input_key) # <<>>
    THEN [show_message(
             [s EXCEPT !.entries =
                  Append(@, <<trim(s.input_key), trim(s.input_value)>>)],
             "Variable added", MessageSecs, t)
          EXCEPT !.mode = ModeList]
    ELSE [show_message(s, "Key cannot be empty", MessageSecs, t)
          EXCEPT !.mode = ModeList]

add_mode_enter(s, t) ==
    IF trim(s.input_key) # <<>>
    THEN [show_message(
             [s EXCEPT !.entries =
                  Append(@, <<trim(s.input_key), trim(s.input_value)>>)],
             "Variable added", MessageSecs, t)
          EXCEPT !.mode = ModeList]
    ELSE show_message(s, "Key cannot be empty", MessageSecs, t)

\* handle_add_mode panics where String::insert or String::remove does
add_mode_panics(s, key) ==
    \/ key.code = "Backspace" /\ field_backspace_panics(Field(s, s.input_focus))
    \/ key.code = "Char" /\ field_char_panics(Field(s, s.input_focus))

handle_add_mode(s, key, t) ==
    CASE key.code = "Enter" -> add_mode_enter(s, t)
      [] key.code = "Esc" -> [s EXCEPT !.mode = ModeList]
      [] key.code = "Tab" ->
            [s EXCEPT !.input_focus = IF @ = "Key" THEN "Value" ELSE "Key"]
      [] key.code = "Left" ->
            WithField(s, s.input_focus, field_left(Field(s, s.input_focus)))
      [] key.code = "Right" ->
            WithField(s, s.input_focus, field_right(Field(s, s.input_focus)))
      [] key.code = "Backspace" ->
            WithField(s, s.input_focus, field_backspace(Field(s, s.input_focus)))
      [] key.code = "Char" ->
            WithField(s, s.input_focus, field_char(Field(s, s.input_focus), key.ch))
      [] OTHER -> s

----------------------------------------------------------------------------
(* Controller: handle_edit_mode *)

\* a slip: the last entry named k is taken
find_Last(entries, k) ==
    IF \E i \in 1..Len(entries) : entries[i][1] = k
    THEN CHOOSE i \in 1..Len(entries) :
            /\ entries[i][1] = k
            /\ \A j \in (i + 1)..Len(entries) : entries[j][1] # k
    ELSE 0

\* entries.iter_mut().find(|(k, _)| k == key_name): the index of the first
\* entry named k, 0 when there is none
find(entries, k) ==
    IF \E i \in 1..Len(entries) : entries[i][1] = k
    THEN CHOOSE i \in 1..Len(entries) :
            /\ entries[i][1] = k
            /\ \A j \in 1..(i - 1) : entries[j][1] # k
    ELSE 0

\* a slip: the confirmation is posted although nothing was updated
edit_mode_enter_AlwaysConfirms(s, t) ==
    IF s.mode[1] = "Edit"
    THEN LET i == find(s.entries, s.mode[2])
             updated == IF i # 0
                        THEN [s EXCEPT !.entries[i][2] = trim(s.input_value)]
                        ELSE s
         IN  [show_message(updated, "Variable updated", MessageSecs, t)
              EXCEPT !.mode = ModeList]
    ELSE s


edit_mode_enter(s, t) ==
    IF s.mode[1] = "Edit"
    THEN LET i == find(s.entries, s.mode[2])
         IN  IF i # 0
             THEN [show_message(
                      [s EXCEPT !.entries[i][2] = trim(s.input_value)],
                      "Variable updated", MessageSecs, t)
                   EXCEPT !.mode = ModeList]
             ELSE [s EXCEPT !.mode = ModeList]
    ELSE s

edit_mode_panics(s, key) ==
    \/ key.code = "Backspace" /\ field_backspace_panics(Field(s, "Value"))
    \/ key.code = "Char" /\ field_char_panics(Field(s, "Value"))

handle_edit_mode(s, key, t) ==
    CASE key.code = "Enter" -> edit_mode_enter(s, t)
      [] key.code = "Esc" -> [s EXCEPT !.mode = ModeList]
      [] key.code = "Left" -> WithField(s, "Value", field_left(Field(s, "Value")))
      [] key.code = "Right" -> WithField(s, "Value", field_right(Field(s, "Value")))
      [] key.code = "Backspace" ->
            WithField(s, "Value", field_backspace(Field(s, "Value")))
      [] key.code = "Char" ->
            WithField(s, "Value", field_char(Field(s, "Value"), key.ch))
      [] OTHER -> s

----------------------------------------------------------------------------
(* Controller: handle_delete_mode *)

\* a slip: only the first entry named k is removed
retain_First(entries, k) ==
    LET hit == { i \in 1..Len(entries) : entries[i][1] = k }
    IN  IF hit = {} THEN entries
        ELSE LET i == CHOOSE x \in hit : \A y \in hit : x <= y
             IN  SubSeq(entries, 1, i - 1) \o SubSeq(entries, i + 1, Len(entries))

\* Vec::retain(|(k, _)| k != key_name)
retain(entries, k) == SelectSeq(entries, LAMBDA e : e[1] # k)

\* a slip: the deletion is confirmed but the entries stay
delete_mode_yes_KeepsEntries(s, t) ==
    [(IF s.mode[1] = "Delete"
      THEN show_message(s, "Variable deleted", MessageSecs, t)
      ELSE s)
     EXCEPT !.mode = ModeList]

\* a slip: the modal stays open on the key it has just deleted
delete_mode_yes_StaysOpen(s, t) ==
    IF s.mode[1] = "Delete"
    THEN show_message(
            [s EXCEPT !.entries = retain(@, s.mode[2])],
            "Variable deleted", MessageSecs, t)
    ELSE [s EXCEPT !.mode = ModeList]

delete_mode_yes(s, t) ==
    [(IF s.mode[1] = "Delete"
      THEN show_message(
              [s EXCEPT !.entries = retain(@, s.mode[2])],
              "Variable deleted", MessageSecs, t)
      ELSE s)
     EXCEPT !.mode = ModeList]

\* a slip: Ctrl+Q quits from the Delete modal as well
handle_delete_mode_Quits(s, key, t) ==
    CASE key.code = "Char" /\ key.ch = "q" /\ key.ctrl ->
            [s EXCEPT !.should_quit = TRUE]
      [] key.code = "Char" /\ key.ch = "y" -> delete_mode_yes(s, t)
      [] (key.code = "Char" /\ key.ch = "n") \/ key.code = "Esc" ->
            [s EXCEPT !.mode = ModeList]
      [] OTHER -> s

\* a slip: the cancellation also dismisses the status message
delete_mode_no_Dismisses(s) ==
    [s EXCEPT !.mode = ModeList, !.message = None, !.message_expiry = None]

\* KeyCode::Char('n') | KeyCode::Esc => state.mode = Mode::List
delete_mode_no(s) == [s EXCEPT !.mode = ModeList]

handle_delete_mode(s, key, t) ==
    CASE key.code = "Char" /\ key.ch = "y" -> delete_mode_yes(s, t)
      [] (key.code = "Char" /\ key.ch = "n") \/ key.code = "Esc" ->
            delete_mode_no(s)
      [] OTHER -> s

----------------------------------------------------------------------------
(* Controller: the tick *)

\* what event::poll and event::read deliver within the 100 ms of a tick
NoEvent == [kind |-> "None", key |-> Key("")]
KeyEvent(kind, key) == [kind |-> kind, key |-> key]
ResizeEvent == [kind |-> "Resize", key |-> Key("")]
\* event::read() returned an error
ReadError == [kind |-> "Err", key |-> Key("")]
\* event::poll() returned an error
PollError == [kind |-> "PollErr", key |-> Key("")]

\* match state.mode.clone() { ... }
dispatch(s, key, t) ==
    CASE s.mode = ModeList -> handle_list_mode(s, key)
      [] s.mode = ModeAdd -> handle_add_mode(s, key, t)
      [] s.mode[1] = "Edit" -> handle_edit_mode(s, key, t)
      [] s.mode[1] = "Delete" -> handle_delete_mode(s, key, t)

dispatch_panics(s, key) ==
    \/ s.mode = ModeAdd /\ add_mode_panics(s, key)
    \/ s.mode[1] = "Edit" /\ edit_mode_panics(s, key)

handle_input_panics(s, ev) == ev.kind = "Press" /\ dispatch_panics(s, ev.key)

\* a slip: every key event is dispatched, whatever its kind
handle_input_dispatch_AnyKind(s, ev, t) ==
    IF ev.kind \in {"Press", "Release", "Repeat"}
    THEN dispatch(s, ev.key, t) ELSE s

\* handle_input up to the dispatch: `ev` is the event polled, `t` the time
\* after the poll
handle_input_dispatch(s, ev, t) ==
    IF ev.kind = "Press" THEN dispatch(s, ev.key, t) ELSE s

\* a slip: the message is cleared as soon as the clock reaches the expiry
handle_input_finish_ClearsAtExpiry(s, vs, t) ==
    LET reloaded == IF s.reload_requested THEN reload(s, vs, t) ELSE s
    IN  IF reloaded.message_expiry # None /\ t >= reloaded.message_expiry[1]
        THEN clear_message(reloaded)
        ELSE reloaded

\* handle_input past the dispatch: the reload, if requested, with `vs` what
\* get_variables() returns, then the expiry of the message
handle_input_finish(s, vs, t) ==
    LET reloaded == IF s.reload_requested THEN reload(s, vs, t) ELSE s
    IN  IF reloaded.message_expiry # None /\ t > reloaded.message_expiry[1]
        THEN clear_message(reloaded)
        ELSE reloaded

\* a slip: a failed poll or read counts as no event
handle_input_SwallowsError(s, ev, vs, t) ==
    handle_input_finish(handle_input_dispatch(s, ev, t), vs, t)

\* handle_input: the `?` on event::poll and event::read returns the error
\* before anything is done
handle_input(s, ev, vs, t) ==
    IF ev \in {PollError, ReadError} THEN s
    ELSE handle_input_finish(handle_input_dispatch(s, ev, t), vs, t)

\* what handle_input returns: io::Result<()>
handle_input_result(ev) ==
    IF ev \in {PollError, ReadError} THEN "Err" ELSE "Ok"

----------------------------------------------------------------------------
(* The list browser: InteractiveMode *)

\* InteractiveMode::default, with `vs` what get_variables() returns
InteractiveMode_default(vs) ==
    [ mode |-> "List",
      exit |-> FALSE,
      entries |-> vs,
      current_index |-> 0,
      scroll_offset |-> 0,
      visible_options |-> 30,
      truncation_len |-> 30,
      value_scroll_offset |-> 0 ]

scroll_value_left(m) ==
    IF m.value_scroll_offset > 0
    THEN [m EXCEPT !.value_scroll_offset = @ - 1] ELSE m

\* a slip: the offset may step one past the end of the value
scroll_value_right_PastEnd(m) ==
    IF m.current_index < Len(m.entries)
          /\ m.value_scroll_offset <= len(m.entries[m.current_index + 1][2])
    THEN [m EXCEPT !.value_scroll_offset = @ + 1] ELSE m

\* a slip: the offset stops one short of the end of the value
scroll_value_right_StopsShort(m) ==
    IF m.current_index < Len(m.entries)
          /\ m.value_scroll_offset + 1 < len(m.entries[m.current_index + 1][2])
    THEN [m EXCEPT !.value_scroll_offset = @ + 1] ELSE m

scroll_value_right(m) ==
    IF m.current_index < Len(m.entries)
          /\ m.value_scroll_offset < len(m.entries[m.current_index + 1][2])
    THEN [m EXCEPT !.value_scroll_offset = @ + 1] ELSE m

exit(m) == [m EXCEPT !.exit = TRUE]

\* a slip: the horizontal offset survives the move
down_KeepsValueScroll(m) ==
    LET max_index == saturating_sub(Len(m.entries), 1)
    IN  IF m.current_index < max_index
        THEN LET i == m.current_index + 1
                 visible_area == saturating_sub(m.visible_options, 8)
                 scroll_trigger == m.scroll_offset + saturating_sub(visible_area, 4)
             IN  [m EXCEPT !.current_index = i,
                           !.scroll_offset =
                               IF i > scroll_trigger THEN @ + 1 ELSE @]
        ELSE m

down(m) ==
    LET max_index == saturating_sub(Len(m.entries), 1)
    IN  IF m.current_index < max_index
        THEN LET i == m.current_index + 1
                 visible_area == saturating_sub(m.visible_options, 8)
                 scroll_trigger == m.scroll_offset + saturating_sub(visible_area, 4)
             IN  [m EXCEPT !.current_index = i,
                           !.value_scroll_offset = 0,
                           !.scroll_offset =
                               IF i > scroll_trigger THEN @ + 1 ELSE @]
        ELSE m

\* a slip: Up at the top still resets the horizontal offset
up_ResetsAtTop(m) ==
    IF m.current_index > 0
    THEN LET i == m.current_index - 1
         IN  [m EXCEPT !.current_index = i,
                       !.value_scroll_offset = 0,
                       !.scroll_offset = IF i < @ THEN i ELSE @]
    ELSE [m EXCEPT !.value_scroll_offset = 0]

up(m) ==
    IF m.current_index > 0
    THEN LET i == m.current_index - 1
         IN  [m EXCEPT !.current_index = i,
                       !.value_scroll_offset = 0,
                       !.scroll_offset = IF i < @ THEN i ELSE @]
    ELSE m

\* a slip: the horizontal offset survives the reload
InteractiveMode_reload_KeepsValueScroll(m, vs) ==
    [m EXCEPT !.entries = vs,
              !.current_index = 0,
              !.scroll_offset = 0]

InteractiveMode_reload(m, vs) ==
    [m EXCEPT !.entries = vs,
              !.current_index = 0,
              !.scroll_offset = 0,
              !.value_scroll_offset = 0]

\* key_event.modifiers == KeyModifiers::CONTROL is key.ctrl
handle_key_event(m, key, vs) ==
    CASE key.code = "Char" /\ key.ch \in {"q", "Q"} /\ key.ctrl -> exit(m)
      [] key.code = "Down" -> down(m)
      [] key.code = "Up" -> up(m)
      [] key.code = "Left" -> scroll_value_left(m)
      [] key.code = "Right" -> scroll_value_right(m)
      [] key.code = "Char" /\ key.ch \in {"r", "R"} /\ key.ctrl ->
            InteractiveMode_reload(m, vs)
      [] OTHER -> m

\* handle_events: `ev` is what event::read() returned
handle_events(m, ev, vs) ==
    IF ev.kind = "Press" THEN handle_key_event(m, ev.key, vs) ELSE m

----------------------------------------------------------------------------
(* The list browser: rendering *)

Min(a, b) == IF a < b THEN a ELSE b

\* a Rect, by its size
Area(w, h) == [width |-> w, height |-> h]

\* &s[from..to] panics unless from <= to <= len and both lie on char
\* boundaries
SlicePanics(s, from, to) ==
    \/ from > to
    \/ to > len(s)
    \/ ~is_char_boundary(s, from)
    \/ ~is_char_boundary(s, to)

\* the height of chunks[0]: Length(3) is met from 9 rows on, below that
\* Min(6) takes what there is
main_list_height(area) ==
    IF area.height >= 9 THEN area.height - 3 ELSE Min(area.height, 6)

\* render_main_list panics on the entries slice, or on the truncation of a
\* visible value
render_main_list_panics(m, area) ==
    LET height == saturating_sub(main_list_height(area), 6)
        visible_height == saturating_sub(height, 2)
        end_index == Min(m.scroll_offset + visible_height, Len(m.entries))
    IN  \/ m.scroll_offset > end_index
        \/ \E i \in (m.scroll_offset + 1)..end_index :
              /\ len(m.entries[i][2]) > m.truncation_len
              /\ SlicePanics(m.entries[i][2], 0, m.truncation_len)

\* &s[from..to], for offsets that lie on char boundaries
slice(s, from, to) ==
    SubSeq(s, CharsBefore(s, from) + 1, CharsBefore(s, to))

\* the marker "..."
Ellipsis == <<".", ".", ".">>

\* truncated_value: what a row of the list shows of the value, None where the
\* slice panics
truncated_value(value, truncation_len) ==
    IF len(value) > truncation_len
    THEN IF SlicePanics(value, 0, truncation_len) THEN None
         ELSE Some(slice(value, 0, truncation_len) \o Ellipsis)
    ELSE Some(value)

\* the values shown by the rows of entries[scroll_offset..end_index]
main_list_rows(m, area) ==
    LET height == saturating_sub(main_list_height(area), 6)
        visible_height == saturating_sub(height, 2)
        end_index == Min(m.scroll_offset + visible_height, Len(m.entries))
    IN  [ i \in 1..saturating_sub(end_index, m.scroll_offset) |->
            truncated_value(m.entries[m.scroll_offset + i][2], m.truncation_len) ]

\* render_value_panel panics on the slice of the selected value
render_value_panel_panics(m, area) ==
    /\ m.current_index < Len(m.entries)
    /\ LET value == m.entries[m.current_index + 1][2]
           scroll_offset == Min(m.value_scroll_offset, len(value))
           visible_width == saturating_sub(area.width, 4)
           end_index == Min(scroll_offset + visible_width, len(value))
       IN  SlicePanics(value, scroll_offset, end_index)

render_panics(m, area) ==
    render_main_list_panics(m, area) \/ render_value_panel_panics(m, area)

\* impl Widget for &mut InteractiveMode: what render leaves in the browser
\* (list::render works on a clone)
Widget_render(m, area) == [m EXCEPT !.visible_options = area.height]

----------------------------------------------------------------------------
(* The command line: set, add and delete on the environment of the process *)

\* the environment with none of the variables of interest set
NoVariables == [k \in {} |-> <<>>]

\* env::var(key)
var(e, key) == IF key \in DOMAIN e THEN Some(e[key]) ELSE None

\* env::set_var(key, value)
set_var(e, key, value) ==
    [k \in DOMAIN e \cup {key} |-> IF k = key THEN value ELSE e[k]]

\* env::remove_var(key)
remove_var(e, key) == [k \in DOMAIN e \ {key} |-> e[k]]

\* Result<(), ErrorKind>
Ok == [ok |-> TRUE, kind |-> "", msg |-> ""]
Err(kind, msg) == [ok |-> FALSE, kind |-> kind, msg |-> msg]

\* what a call returns to the command: the environment it leaves, its result,
\* and the Command::status calls it made, each with the environment the child
\* inherited
Outcome(e, result, spawned) == [env |-> e, result |-> result, spawned |-> spawned]

\* a slip: a name with a space passes
validate_var_name_AllowsSpaces(name) ==
    IF name = <<>>
    THEN Err("NameValidationError", "Variable name cannot be empty")
    ELSE Ok

\* validate_var_name, with the map_err(ErrorKind::NameValidationError) of its
\* callers
validate_var_name(name) ==
    IF name = <<>>
    THEN Err("NameValidationError", "Variable name cannot be empty")
    ELSE IF \E i \in DOMAIN name : name[i] = " "
         THEN Err("NameValidationError", "Variable name cannot contain spaces")
         ELSE Ok

\* run(process): the shell is started on a non-empty command line, unless the
\* system cannot start it. A child that exits with a failure is Ok(code) here;
\* the callers' run(process, false) reports it as ProcessFailed in their
\* tests, so whether it fails the call is left to os.exit_fails
run(process, e, os) ==
    IF process = ""
    THEN Outcome(e, Err("StartingProcessError", ""), <<>>)
    ELSE LET child == << [process |-> process, env |-> e] >>
         IN  CASE os.status = "cannot start" ->
                     Outcome(e, Err("StartingProcessError", ""), child)
               [] os.status = "exit 1" /\ os.exit_fails ->
                     Outcome(e, Err("ProcessFailed", ""), child)
               [] OTHER -> Outcome(e, Ok, child)

\* a slip: the variable is taken back when the process fails
set_variable_RollsBack(e, key, value, global, process, os) ==
    IF global /\ os.global # "ok"
    THEN Outcome(IF os.global = "err, applied" THEN set_var(e, key, value) ELSE e,
                 Err("CannotSetVariableGlobally", ""), <<>>)
    ELSE IF process # None
         THEN LET r == run(process[1], set_var(e, key, value), os)
              IN  Outcome(IF r.result.ok THEN r.env ELSE e, r.result, r.spawned)
         ELSE Outcome(set_var(e, key, value), Ok, <<>>)

\* set_variable: globalenv::set_var sets the variable for the process too, and
\* where it fails it may or may not have done so
set_variable(e, key, value, global, process, os) ==
    IF global /\ os.global # "ok"
    THEN Outcome(IF os.global = "err, applied" THEN set_var(e, key, value) ELSE e,
                 Err("CannotSetVariableGlobally", ""), <<>>)
    ELSE IF process # None
         THEN run(process[1], set_var(e, key, value), os)
         ELSE Outcome(set_var(e, key, value), Ok, <<>>)

delete_variable(e, name, global, os) ==
    IF global /\ os.global # "ok"
    THEN Outcome(IF os.global = "err, applied" THEN remove_var(e, name) ELSE e,
                 Err("CannotDeleteVariableGlobally", ""), <<>>)
    ELSE Outcome(remove_var(e, name), Ok, <<>>)

set(e, args, os) ==
    IF ~validate_var_name(args.key).ok
    THEN Outcome(e, validate_var_name(args.key), <<>>)
    ELSE set_variable(e, args.key, args.value, args.global, args.process, os)

\* a slip: the given value replaces the current one
add_Overwrites(e, args, os) ==
    IF ~validate_var_name(args.key).ok
    THEN Outcome(e, validate_var_name(args.key), <<>>)
    ELSE set_variable(e, args.key, args.value, args.global, args.process, os)

add(e, args, os) ==
    IF ~validate_var_name(args.key).ok
    THEN Outcome(e, validate_var_name(args.key), <<>>)
    ELSE LET current_value ==
                 IF var(e, args.key) # None THEN var(e, args.key)[1] ELSE <<>>
         IN  set_variable(e, args.key, current_value \o args.value,
                          args.global, args.process, os)

delete(e, args, os) ==
    IF ~validate_var_name(args.key).ok
    THEN Outcome(e, validate_var_name(args.key), <<>>)
    ELSE LET deleted ==
                 IF var(e, args.key) # None
                 THEN delete_variable(e, args.key, args.global, os)
                 ELSE Outcome(e, Ok, <<>>)
         IN  IF ~deleted.result.ok THEN deleted
             ELSE IF args.process # None
                  THEN run(args.process[1], deleted.env, os)
                  ELSE deleted

\* the calls of set_variable that load makes on `variables`, the parallel
\* iterator handing out the keys in `order`, from the i-th on. try_for_each
\* returns the first Err; the calls after it are skipped, or with `eager`
\* have been started on other threads and are made all the same
RECURSIVE load_each(_, _, _, _, _, _, _, _)
load_each(acc, variables, order, i, args, os, eager, failed) ==
    IF i > Len(order)
    THEN IF failed = None THEN acc ELSE Outcome(acc.env, failed[1], acc.spawned)
    ELSE LET r == set_variable(acc.env, order[i], variables[order[i]],
                               args.global, args.process, os)
             done == Outcome(r.env, r.result, acc.spawned \o r.spawned)
         IN  IF r.result.ok
             THEN load_each(done, variables, order, i + 1, args, os, eager, failed)
             ELSE IF eager
                  THEN load_each(done, variables, order, i + 1, args, os, eager,
                                 IF failed = None THEN Some(r.result) ELSE failed)
                  ELSE Outcome(r.env, IF failed = None THEN r.result ELSE failed[1],
                               done.spawned)

\* load: the file is read and parsed, every variable is set by set_variable,
\* which is handed the process too, and the process is run once more at the end
load(e, args, file, order, os, eager) ==
    CASE file.content = "unreadable" -> Outcome(e, Err("FileError", ""), <<>>)
      [] file.content = "malformed" -> Outcome(e, Err("ParsingError", ""), <<>>)
      [] OTHER ->
            LET each == load_each(Outcome(e, Ok, <<>>), file.variables, order, 1,
                                  args, os, eager, None)
            IN  IF ~each.result.ok THEN each
                ELSE IF args.process # None
                     THEN LET r == run(args.process[1], each.env, os)
                          IN  Outcome(r.env, r.result, each.spawned \o r.spawned)
                     ELSE each

----------------------------------------------------------------------------
(* The environment: what the variable source returns, which keys arrive *)

A == <<"a">>
B == <<"b">>

\* the lists get_variables() returns to the editor, at start-up and on reload
Sources ==
    { <<>>,
      << <<A, <<"b">>>> >>,
      << <<A, <<"b">>>>, <<B, <<" ", "a">>>>, <<A, <<>>>> >> }

\* the same, with values that hold a two-byte char
TextSources ==
    { << <<A, <<"E9">>>>, <<B, <<"a", "E9">>>> >> }

ListKeys ==
    { CtrlKey("q"), CharKey("a"), CharKey("e"), CharKey("d"), Key("Down"),
      Key("Up"), CtrlKey("r"), Key("Tab") }

\* the keys of a modal session that composes a text and confirms or cancels it
FlowKeys ==
    { Key("Enter"), Key("Esc"), Key("Tab"), CharKey("a"), CharKey(" ") }

\* the keys of a modal session that edits a text in place
TextKeys ==
    { Key("Esc"), Key("Tab"), Key("Left"), Key("Right"), Key("Backspace") }
        \cup { CharKey(c) : c \in Chars }

DeleteKeys == { CharKey("y"), CharKey("n"), Key("Esc"), Key("Tab") }

\* the buffer a typed char goes to
Focused(s) ==
    IF s.mode = ModeAdd /\ s.input_focus = "Key" THEN s.input_key ELSE s.input_value

\* the texts the user composes, char by char, in a modal session
Texts == { <<" ", "a", " ">> }

IsPrefix(p, s) == Len(p) <= Len(s) /\ SubSeq(s, 1, Len(p)) = p

\* composing: the char continues one of `texts`; an addition is confirmed only
\* while the list holds fewer than MaxEntries entries
ComposingOf(texts, s, key) ==
    /\ key.code = "Char" =>
          \E x \in texts : IsPrefix(Append(Focused(s), key.ch), x)
    /\ (s.mode = ModeAdd /\ key.code = "Enter") => Len(s.entries) < MaxEntries

Composing(s, key) == ComposingOf(Texts, s, key)

\* editing in place: any char of Chars, up to MaxLen chars in a buffer
Editing(s, key) == key.code = "Char" => Len(Focused(s)) < MaxLen

\* typing: up to MaxTyped chars in a buffer, and an addition that appends is
\* confirmed only while the list holds fewer than MaxKept entries
Typing(s, key) ==
    /\ key.code = "Char" => Len(Focused(s)) < MaxTyped
    /\ (s.mode = ModeAdd /\ key.code = "Enter" /\ trim(s.input_key) # <<>>)
          => Len(s.entries) < MaxKept

\* whether the user presses `key` in state s: composing a text, typing with
\* confirmations, or editing in place
Pressable(session, s, key) ==
    CASE session = "composing" -> Composing(s, key)
      [] session = "typing" -> Typing(s, key)
      [] OTHER -> Editing(s, key)

----------------------------------------------------------------------------
(* The editor driven call by call *)

\* each front end starts from what get_variables() returns to it
Start(editor_sources, browser_sources) ==
    /\ \E vs \in editor_sources : state = new(vs)
    /\ \E vs \in browser_sources : im = InteractiveMode_default(vs)
    /\ now = 0
    /\ panicked = FALSE
    /\ called = <<"new">>
    /\ before = None
    /\ pc = "idle"
    /\ env = NoVariables

\* the editor alone: the browser idles on an empty list
Init == Start(Sources, {<<>>})

Running == ~panicked /\ ~state.should_quit

\* the history of the latest addition after call `c` made in state `s`: an
\* Add confirmation that appends starts it, Down, Up, 'd' and the keys of the
\* Delete modal keep it, the first 'y' marks it, any other call ends it
AddedBefore(c, s, b) ==
    CASE c = <<"handle_add_mode", Key("Enter")>> ->
            IF trim(s.input_key) # <<>>
            THEN Some(<<s.entries, trim(s.input_key), FALSE>>) ELSE None
      [] c = <<"handle_delete_mode", CharKey("y")>> ->
            IF b # None /\ ~b[1][3] THEN Some(<<b[1][1], b[1][2], TRUE>>)
            ELSE None
      [] c[1] = "handle_delete_mode" -> b
      [] c[1] = "handle_list_mode"
            /\ c[2] \in {Key("Down"), Key("Up"), CharKey("d")} -> b
      [] OTHER -> None

\* a call on the editor state; one that panics aborts the process and leaves
\* the state as it was
Call(c, panics, next) ==
    /\ called' = c
    /\ IF panics
       THEN panicked' = TRUE /\ UNCHANGED <<state, now, im, before, pc, env>>
       ELSE /\ state' = next
            /\ before' = AddedBefore(c, state, before)
            /\ UNCHANGED <<now, panicked, im, pc, env>>

HandleListMode(keys) ==
    /\ Running
    /\ state.mode = ModeList
    /\ ~state.reload_requested
    /\ \E key \in keys :
          Call(<<"handle_list_mode", key>>, FALSE, handle_list_mode(state, key))

HandleAddMode(keys, session) ==
    /\ Running
    /\ state.mode = ModeAdd
    /\ \E key \in keys :
          /\ Pressable(session, state, key)
          /\ Call(<<"handle_add_mode", key>>, add_mode_panics(state, key),
                  handle_add_mode(state, key, now))

HandleEditMode(keys, session) ==
    /\ Running
    /\ state.mode[1] = "Edit"
    /\ \E key \in keys :
          /\ Pressable(session, state, key)
          /\ Call(<<"handle_edit_mode", key>>, edit_mode_panics(state, key),
                  handle_edit_mode(state, key, now))

HandleDeleteMode ==
    /\ Running
    /\ state.mode[1] = "Delete"
    /\ \E key \in DeleteKeys :
          Call(<<"handle_delete_mode", key>>, FALSE,
               handle_delete_mode(state, key, now))

\* AppState::reload called on the state, in whatever mode it is
ReloadFrom(sources) ==
    /\ Running
    /\ \E vs \in sources : Call(<<"reload", vs>>, FALSE, reload(state, vs, now))

Reload == ReloadFrom(Sources)

Next ==
    \/ HandleListMode(ListKeys)
    \/ HandleAddMode(FlowKeys, "composing")
    \/ HandleEditMode(FlowKeys, "composing")
    \/ HandleDeleteMode
    \/ Reload

Spec == Init /\ [][Next]_vars

----------------------------------------------------------------------------
(* Text editing in place: no confirmation, the entries stay as loaded *)

InitText == Start(TextSources, {<<>>})

\* the keys that open a modal on an entry and move the selection
TextListKeys == { CharKey("a"), CharKey("e"), Key("Down"), Key("Up") }

NextText ==
    \/ HandleListMode(TextListKeys)
    \/ HandleAddMode(TextKeys, "editing")
    \/ HandleEditMode(TextKeys, "editing")

SpecText == InitText /\ [][NextText]_vars

----------------------------------------------------------------------------
(* Vertical navigation alone, on lists long enough to scroll *)

Row == <<A, <<"a">>>>

\* the lists of 0..MaxRows rows
RowLists == { [i \in 1..n |-> Row] : n \in 0..MaxRows }

InitNav == \E vs \in RowLists : Start({vs}, {vs})

\* a key event handled by the browser, outside run
HandleKeyEvent(keys) ==
    /\ pc = "idle"
    /\ ~im.exit
    /\ \E key \in keys, vs \in Sources :
          /\ im' = handle_key_event(im, key, vs)
          /\ called' = <<"handle_key_event", key>>
    /\ UNCHANGED <<state, now, panicked, before, pc, env>>

\* the navigation keys
NavKeys == { Key("Down"), Key("Up") }

NextNav ==
    \/ HandleListMode(NavKeys)
    \/ HandleKeyEvent(NavKeys)

SpecNav == InitNav /\ [][NextNav]_vars

----------------------------------------------------------------------------
(* Every kind of key in every mode of the editor *)

KeysSources == { <<>>, << <<A, <<"b">>>> >> }

InitKeys == Start(KeysSources, {<<>>})

\* a key no handler binds
Unbound == Key("F1")

\* the keys of List mode, with the cursor keys
ListModeKeys == ListKeys \cup { Key("Left"), Key("Right") }

\* the keys of a modal session: confirmation, cancellation, focus, cursor
\* moves, Backspace, a char, an unbound key
ModalKeys ==
    { Key("Enter"), Key("Esc"), Key("Tab"), Key("Left"), Key("Right"),
      Key("Backspace"), CharKey("a"), Unbound }

NextKeys ==
    \/ HandleListMode(ListModeKeys)
    \/ HandleAddMode(ModalKeys, "typing")
    \/ HandleEditMode(ModalKeys, "typing")
    \/ HandleDeleteMode
    \/ ReloadFrom(KeysSources)

SpecKeys == InitKeys /\ [][NextKeys]_vars

----------------------------------------------------------------------------
(* Reloads of both front ends, after navigation and deletions *)

InitReload == Start(Sources, Sources)

\* InteractiveMode::reload called on the browser, as its unit test does
BrowserReload ==
    /\ pc = "idle"
    /\ ~im.exit
    /\ \E vs \in Sources :
          /\ im' = InteractiveMode_reload(im, vs)
          /\ called' = <<"InteractiveMode::reload", vs>>
    /\ UNCHANGED <<state, now, panicked, before, pc, env>>

\* the keys that lead the editor to a reload or a deletion, and the browser
\* off its first row and column
ReloadListKeys == { Key("Down"), CharKey("d"), CtrlKey("r") }
ReloadBrowserKeys == { Key("Down"), Key("Right") }

NextReload ==
    \/ HandleListMode(ReloadListKeys)
    \/ HandleDeleteMode
    \/ Reload
    \/ HandleKeyEvent(ReloadBrowserKeys)
    \/ BrowserReload

SpecReload == InitReload /\ [][NextReload]_vars

----------------------------------------------------------------------------
(* The list browser driven by InteractiveMode::run *)

\* what get_variables() returns to the browser: values of 0 to 2 bytes, one
\* of them a two-byte char
BrowserSources ==
    { <<>>,
      << <<A, <<"a", "b">>>>, <<B, <<>>>>, <<A, <<"E9">>>> >> }

\* the terminal sizes a frame can have: none, one that shows a single row
\* of the list, a narrow one
Areas == { Area(0, 0), Area(80, 12), Area(5, 24) }

BrowserKeys ==
    { CtrlKey("q"), CharKey("q"), Key("Down"), Key("Up"), Key("Left"),
      Key("Right"), CtrlKey("r") }

\* what event::read() returns; it blocks until there is an event
BrowserEvents ==
    { ResizeEvent, KeyEvent("Release", CtrlKey("q")) }
        \cup { KeyEvent("Press", key) : key \in BrowserKeys }

InitRun == Start({<<>>}, BrowserSources)

\* run is called
Run ==
    /\ pc = "idle"
    /\ pc' = "top"
    /\ called' = <<"run">>
    /\ UNCHANGED <<state, now, panicked, im, before, env>>

\* a slip: the loop does not look at the exit flag
run_continues_Always(m) == TRUE

\* while !self.exit
run_continues(m) == ~m.exit

\* while !self.exit { terminal.draw(|frame| self.draw(frame))?; ...
\* the frame has the size of the terminal; the draw can fail in the backend,
\* before or after the widget was rendered
RunDraw ==
    /\ pc = "top"
    /\ ~panicked
    /\ run_continues(im)
    /\ \E area \in Areas :
          /\ called' = <<"draw", area>>
          /\ \/ /\ render_panics(im, area)
                /\ panicked' = TRUE
                /\ UNCHANGED <<im, pc>>
             \/ /\ ~render_panics(im, area)
                /\ im' = Widget_render(im, area)
                /\ pc' \in {"read", "err"}
                /\ UNCHANGED panicked
             \/ /\ pc' = "err"
                /\ UNCHANGED <<im, panicked>>
    /\ UNCHANGED <<state, now, before, env>>

\* ... self.handle_events()?; }
RunHandleEvents ==
    /\ pc = "read"
    /\ \/ \E ev \in BrowserEvents, vs \in BrowserSources :
             /\ im' = handle_events(im, ev, vs)
             /\ called' = <<"handle_events", ev>>
             /\ pc' = "top"
       \/ /\ called' = <<"handle_events", ReadError>>
          /\ pc' = "err"
          /\ UNCHANGED im
    /\ UNCHANGED <<state, now, panicked, before, env>>

\* the loop test fails: Ok(())
RunReturn ==
    /\ pc = "top"
    /\ ~run_continues(im)
    /\ pc' = "ok"
    /\ called' = <<"Ok">>
    /\ UNCHANGED <<state, now, panicked, im, before, env>>

NextRun ==
    \/ HandleKeyEvent({CtrlKey("q")})
    \/ Run
    \/ RunDraw
    \/ RunHandleEvents
    \/ RunReturn

\* a program that can take its next step takes it
SpecRun == InitRun /\ [][NextRun]_vars /\ WF_vars(RunReturn)

\* a value of 31 bytes, one more than the default truncation_len, in which
\* byte 30 lies inside a two-byte char
LongValue == <<"a">> \o [i \in 1..15 |-> "E9"]

\* the same run over a list that holds the long value
InitLong == Start({<<>>}, { << <<A, LongValue>>, <<B, <<>>>> >> })

SpecLong == InitLong /\ [][NextRun]_vars /\ WF_vars(RunReturn)

----------------------------------------------------------------------------
(* The list browser rendered directly, with a truncation length of choice *)

\* the texts of up to n chars, one-byte and two-byte
Strings(n) == UNION { [1..k -> {"a", "E9"}] : k \in 0..n }

\* a browser built as the rendering tests build it: one entry, a value of up
\* to MaxLen + 1 chars, a truncation length of up to MaxLen
InitDraw ==
    /\ state = new(<<>>)
    /\ \E value \in Strings(MaxLen + 1), tl \in 0..MaxLen :
          im = [InteractiveMode_default(<< <<A, value>> >>)
                    EXCEPT !.truncation_len = tl]
    /\ now = 0
    /\ panicked = FALSE
    /\ called = <<"new">>
    /\ before = None
    /\ pc = "idle"
    /\ env = NoVariables

\* Widget::render called on the browser; the history keeps the rows shown
Render ==
    /\ pc = "idle"
    /\ ~panicked
    /\ \E area \in Areas :
          /\ called' = <<"render", area, main_list_rows(im, area)>>
          /\ IF render_panics(im, area)
             THEN panicked' = TRUE /\ UNCHANGED im
             ELSE im' = Widget_render(im, area) /\ UNCHANGED panicked
    /\ UNCHANGED <<state, now, before, pc, env>>

NextDraw == Render

SpecDraw == InitDraw /\ [][NextDraw]_vars

----------------------------------------------------------------------------
(* The editor driven by the event loop, tick by tick *)

\* the keys that arrive in the mode the editor is in; in a modal session the
\* user composes "a" in the field that has the focus
LoopKeys(s) ==
    CASE s.mode = ModeList -> ListKeys
      [] s.mode[1] = "Delete" -> DeleteKeys
      [] OTHER -> { key \in FlowKeys \ {Key("Tab")} :
                      ComposingOf({<<"a">>}, s, key) }

Events(s) ==
    { NoEvent, ResizeEvent, KeyEvent("Release", CtrlKey("q")) }
        \cup { KeyEvent("Press", key) : key \in LoopKeys(s) }

\* what get_variables() can return in a tick: it is called only on a reload
Reloaded(s) == IF s.reload_requested THEN Sources ELSE {<<>>}

\* one call of handle_input that polls one of the events `evs`; the poll lets
\* up to a second pass
HandleInput(evs) ==
    /\ ~panicked
    /\ \E ev \in evs, dt \in {0, 1} :
          /\ now + dt <= MaxTime
          /\ called' = <<"handle_input", ev>>
          /\ IF handle_input_panics(state, ev)
             THEN panicked' = TRUE /\ UNCHANGED <<state, now>>
             ELSE /\ \E vs \in Reloaded(handle_input_dispatch(state, ev, now + dt)) :
                        state' = handle_input(state, ev, vs, now + dt)
                  /\ now' = now + dt
                  /\ UNCHANGED panicked
    /\ UNCHANGED <<im, before, pc, env>>

\* a tick of the loop, which runs until the quit flag is set
Tick == Running /\ HandleInput(Events(state))

NextLoop == Tick

SpecLoop == Init /\ [][NextLoop]_vars

----------------------------------------------------------------------------
(* The event loop with confirmations only, and a clock that keeps advancing *)

\* the keys that open a modal, confirm it or cancel it, reload and quit
ShortKeys(s) ==
    CASE s.mode = ModeList ->
            { CtrlKey("q"), CharKey("a"), CharKey("e"), CharKey("d"),
              CtrlKey("r") }
      [] s.mode[1] = "Delete" -> { CharKey("y"), CharKey("n") }
      [] OTHER -> { Key("Enter"), Key("Esc") }

ShortEvents(s) ==
    { NoEvent } \cup { KeyEvent("Press", key) : key \in ShortKeys(s) }

ShortTick == Running /\ HandleInput(ShortEvents(state))

NextLoopFair == ShortTick

\* the loop calls handle_input again and again, the poll returns after 100 ms
\* at the latest, and the wall clock moves on: ticks that see the clock
\* advanced keep coming, whether or not a key is pressed
SpecLoopFair == Init /\ [][NextLoopFair]_vars /\ WF_vars(ShortTick /\ now' # now)

----------------------------------------------------------------------------
(* handle_input called on an input source that can fail *)

\* what the input source delivers: the events of a short session, or an error
\* of the poll or of the read
IoEvents(s) == ShortEvents(s) \cup {PollError, ReadError}

\* one call of handle_input, with what it returns; the caller may call again
\* after an error
HandleInputIo ==
    /\ ~panicked
    /\ \E ev \in IoEvents(state), dt \in {0, 1} :
          /\ now + dt <= MaxTime
          /\ called' = <<"handle_input", ev, handle_input_result(ev)>>
          /\ \E vs \in Reloaded(handle_input_dispatch(state, ev, now + dt)) :
                state' = handle_input(state, ev, vs, now + dt)
          /\ now' = now + dt
    /\ UNCHANGED <<panicked, im, before, pc, env>>

NextIo == HandleInputIo

SpecIo == Init /\ [][NextIo]_vars

----------------------------------------------------------------------------
(* handle_input called with the quit key in every mode, and after the quit *)

\* Ctrl+Q and plain q in every mode, with the keys that open a modal and
\* leave it; in Add and Edit a char is typed while the buffer holds fewer than
\* MaxLen chars
QuitKeys(s) ==
    CASE s.mode = ModeList ->
            { CtrlKey("q"), CharKey("q"), CharKey("a"), CharKey("e"),
              CharKey("d") }
      [] s.mode[1] = "Delete" -> { CtrlKey("q"), CharKey("y"), CharKey("n") }
      [] OTHER -> { key \in { CtrlKey("q"), Key("Esc") } : Editing(s, key) }

QuitEvents(s) ==
    { NoEvent, ResizeEvent, KeyEvent("Release", CtrlKey("q")),
      KeyEvent("Repeat", CtrlKey("q")) }
        \cup { KeyEvent("Press", key) : key \in QuitKeys(s) }

\* handle_input called on the state, whether or not the quit flag is set
AnyTick == HandleInput(QuitEvents(state))

NextQuit == AnyTick

SpecQuit == Init /\ [][NextQuit]_vars

----------------------------------------------------------------------------
(* The commands set, add and delete called on the environment of the process *)

\* the keys given on the command line: valid ones, the empty one, one with a
\* space
CliKeys == { <<>>, <<"a">>, <<"b">>, <<"a", " ">> }

CliValues == { <<>>, <<"a">> }

\* no process, an empty command line, a command line
Processes == { None, Some(""), Some("sh") }

\* SetArgs and AddArgs
Args == [key : CliKeys, value : CliValues, global : BOOLEAN, process : Processes]

DeleteArgs == [key : CliKeys, global : BOOLEAN, process : Processes]

\* what the system does on the call: whether globalenv succeeds, or fails
\* before or after it has changed the environment of the process, how the
\* child fares, and whether a failed exit fails the call
Os ==
    [global : {"ok", "err", "err, applied"},
     status : {"exit 0", "exit 1", "cannot start"},
     exit_fails : BOOLEAN]

\* what the system can do on a call with `args`: globalenv is of account only
\* to a global call, the child only where a command line is given
OsOf(args) ==
    { os \in Os :
        /\ ~args.global => os.global = "ok"
        /\ args.process \in {None, Some("")} => os.status = "exit 0"
        /\ os.status # "exit 1" => ~os.exit_fails }

InitCli ==
    /\ state = new(<<>>)
    /\ im = InteractiveMode_default(<<>>)
    /\ now = 0
    /\ panicked = FALSE
    /\ called = <<"new">>
    /\ before = None
    /\ pc = "idle"
    /\ env \in { NoVariables, set_var(NoVariables, <<"a">>, <<"a">>) }

\* a command called with `args`, the system doing `os`, has left outcome `r`
Returned(name, args, os, r) == <<name, args, r.result, r.spawned, os>>

Set ==
    \E args \in Args : \E os \in OsOf(args) :
       /\ env' = set(env, args, os).env
       /\ called' = Returned("set", args, os, set(env, args, os))
       /\ UNCHANGED <<state, now, panicked, im, before, pc>>

Add ==
    \E args \in Args : \E os \in OsOf(args) :
       /\ var(env, args.key) # None
             => Len(var(env, args.key)[1]) + Len(args.value) <= MaxValue
       /\ env' = add(env, args, os).env
       /\ called' = Returned("add", args, os, add(env, args, os))
       /\ UNCHANGED <<state, now, panicked, im, before, pc>>

Delete ==
    \E args \in DeleteArgs : \E os \in OsOf(args) :
       /\ env' = delete(env, args, os).env
       /\ called' = Returned("delete", args, os, delete(env, args, os))
       /\ UNCHANGED <<state, now, panicked, im, before, pc>>

NextCli == Set \/ Add \/ Delete

SpecCli == InitCli /\ [][NextCli]_vars

----------------------------------------------------------------------------
(* The command load called on the environment of the process *)

LoadArgs == [file : {".env"}, global : BOOLEAN, process : Processes]

\* what dotenv_parser makes of a readable file: a map from keys to values
Parsed ==
    UNION { [D -> {<<"a">>, <<"b">>}] : D \in SUBSET {<<"a">>, <<"b">>} }

\* the file at args.file: unreadable, not in dotenv format, or parsed
Files ==
    { [content |-> "unreadable", variables |-> NoVariables],
      [content |-> "malformed", variables |-> NoVariables] }
    \cup { [content |-> "parsed", variables |-> v] : v \in Parsed }

\* the orders in which the parallel iterator can hand out the keys
Orders(variables) ==
    { o \in [1..Cardinality(DOMAIN variables) -> DOMAIN variables] :
        \A i, j \in DOMAIN o : o[i] = o[j] => i = j }

Load ==
    \E args \in LoadArgs, file \in Files, eager \in BOOLEAN :
       \E os \in OsOf(args), order \in Orders(file.variables) :
          /\ env' = load(env, args, file, order, os, eager).env
          /\ called' = <<"load", args, file,
                         load(env, args, file, order, os, eager).result,
                         load(env, args, file, order, os, eager).spawned, os>>
          /\ UNCHANGED <<state, now, panicked, im, before, pc>>

NextLoad == Load

SpecLoad == InitCli /\ [][NextLoad]_vars

----------------------------------------------------------------------------
(* Properties *)

Enter == Key("Enter")

\* the keys of an entry list
Named(entries, k) == { i \in 1..Len(entries) : entries[i][1] = k }

\* C1: after every controller call and reload, current_index is below
\* Len(entries) when entries is non-empty and 0 when it is empty.
C1_CurrentIndexInRange ==
    ~panicked =>
        IF state.entries = <<>>
        THEN state.current_index = 0
        ELSE state.current_index < Len(state.entries)

\* the window the browser's down() keeps the selection in
BrowserWindow == saturating_sub(saturating_sub(im.visible_options, 8), 4) + 1

\* C2: under any sequence of Down/Up from the initial state, current_index
\* stays an index of entries (0 on an empty list) and satisfies
\* scroll_offset <= current_index < scroll_offset + window, in the editor
\* (window = visible) and in the browser (window = BrowserWindow).
C2_NavigationWindow ==
    /\ IF state.entries = <<>> THEN state.current_index = 0
       ELSE state.current_index < Len(state.entries)
    /\ state.scroll_offset <= state.current_index
    /\ state.current_index < state.scroll_offset + visible
    /\ IF im.entries = <<>> THEN im.current_index = 0
       ELSE im.current_index < Len(im.entries)
    /\ im.scroll_offset <= im.current_index
    /\ im.current_index < im.scroll_offset + BrowserWindow

\* C2 as stated: current_index is an index of entries whatever the list,
\* the empty one included.
C2_IndexOfEveryList ==
    /\ state.current_index < Len(state.entries)
    /\ state.scroll_offset <= state.current_index
    /\ state.current_index < state.scroll_offset + visible
    /\ im.current_index < Len(im.entries)
    /\ im.scroll_offset <= im.current_index
    /\ im.current_index < im.scroll_offset + BrowserWindow

\* both lists have scrolled, and Up has snapped the editor's offset
C2_Scrolled ==
    /\ state.scroll_offset > 1
    /\ state.current_index = state.scroll_offset
    /\ called = <<"handle_list_mode", Key("Up")>>
    /\ im.scroll_offset > 0
    /\ im.current_index = im.scroll_offset + BrowserWindow - 1

\* C3: after every controller call, each input cursor is at most the length
\* (String::len) of its buffer.
C3_CursorsWithinBuffers ==
    ~panicked =>
        /\ state.input_cursor_key <= len(state.input_key)
        /\ state.input_cursor_value <= len(state.input_value)

\* a two-byte char was typed into the key, and an edit was seeded with one
C3_MultiByteBuffers ==
    /\ state.mode[1] = "Edit"
    /\ state.input_key = <<"a", "E9">>
    /\ state.input_cursor_key = 2
    /\ state.input_value = <<"a", "E9">>
    /\ state.input_cursor_value = len(state.input_value)

\* C4: no controller call panics.
C4_NoPanic == ~panicked

\* C5: message is None exactly when message_expiry is None.
C5_MessageIffExpiry == (state.message = None) <=> (state.message_expiry = None)

\* a confirmation was posted (the list is no list of the source) and expired
C5_Expired ==
    /\ Len(state.entries) = 2
    /\ state.message = None
    /\ state.message_expiry = None
    /\ called = <<"handle_input", NoEvent>>

\* C6: Enter in Add mode with a key that is non-empty after trimming appends
\* (trim(key), trim(value)) to entries, goes to List and posts "Variable added".
C6_AddAppends ==
    [][ (called' = <<"handle_add_mode", Enter>> /\ trim(state.input_key) # <<>>)
        => /\ state'.entries =
                Append(state.entries,
                       <<trim(state.input_key), trim(state.input_value)>>)
           /\ state'.mode = ModeList
           /\ state'.message = Some("Variable added")
           /\ state'.message_expiry # None ]_vars

\* an addition whose key and value were typed with blanks around them
C6_Added ==
    /\ called = <<"handle_add_mode", Enter>>
    /\ state.input_key = <<" ", "a", " ">>
    /\ state.input_value = <<" ", "a">>
    /\ Len(state.entries) = 3
    /\ state.entries[3] = <<A, <<"a">>>>
    /\ state.mode = ModeList
    /\ state.message = Some("Variable added")

\* C7: Enter in Add mode with an empty or blank key leaves entries as they are,
\* stays in Add and posts "Key cannot be empty".
C7_BlankKeyRejected ==
    [][ (called' = <<"handle_add_mode", Enter>> /\ trim(state.input_key) = <<>>)
        => /\ state'.entries = state.entries
           /\ state'.mode = ModeAdd
           /\ state'.message = Some("Key cannot be empty") ]_vars

\* a blank key was rejected
C7_Rejected ==
    /\ called = <<"handle_add_mode", Enter>>
    /\ state.input_key = <<" ">>
    /\ state.mode = ModeAdd
    /\ state.message = Some("Key cannot be empty")
    /\ state.entries # <<>>

\* C8: Enter in Edit(K) mode with an entry named K sets the value of the first
\* entry named K to the trimmed buffer and leaves every other entry, the
\* length and the order as they are; it goes to List and posts a confirmation.
C8_EditFirstMatch ==
    [][ (called' = <<"handle_edit_mode", Enter>>
            /\ Named(state.entries, state.mode[2]) # {})
        => LET K == state.mode[2]
               first == CHOOSE i \in Named(state.entries, K) :
                           \A j \in Named(state.entries, K) : i <= j
           IN  /\ Len(state'.entries) = Len(state.entries)
               /\ state'.entries[first] = <<K, trim(state.input_value)>>
               /\ \A j \in 1..Len(state.entries) :
                     j # first => state'.entries[j] = state.entries[j]
               /\ state'.mode = ModeList
               /\ state'.message = Some("Variable updated") ]_vars

\* an edit started on the second entry named A has changed the first one
C8_Edited ==
    /\ called = <<"handle_edit_mode", Enter>>
    /\ state.current_index = 2
    /\ state.entries = << <<A, <<"a">>>>, <<B, <<" ", "a">>>>, <<A, <<>>>> >>
    /\ state.mode = ModeList
    /\ state.message = Some("Variable updated")

\* C9: Enter in Edit(K) mode with no entry named K changes neither entries nor
\* the message and its expiry, and goes to List.
C9_StaleEditDropped ==
    [][ (called' = <<"handle_edit_mode", Enter>>
            /\ Named(state.entries, state.mode[2]) = {})
        => /\ state'.entries = state.entries
           /\ state'.message = state.message
           /\ state'.message_expiry = state.message_expiry
           /\ state'.mode = ModeList ]_vars

\* an edit of B confirmed after a reload that brought no B
C9_Dropped ==
    /\ called = <<"handle_edit_mode", Enter>>
    /\ state.input_value = <<" ", "a">>
    /\ state.entries = << <<A, <<"b">>>> >>
    /\ state.mode = ModeList
    /\ state.message = Some("List reloaded")

\* C10: 'y' in Delete(K) mode removes every entry named K, keeps the others in
\* their order, posts a confirmation and goes to List.
C10_DeleteAllMatches ==
    [][ called' = <<"handle_delete_mode", CharKey("y")>>
        => /\ state'.entries =
                SelectSeq(state.entries, LAMBDA e : e[1] # state.mode[2])
           /\ state'.mode = ModeList
           /\ state'.message = Some("Variable deleted") ]_vars

\* both entries named A are gone, B is left
C10_Deleted ==
    /\ called = <<"handle_delete_mode", CharKey("y")>>
    /\ state.entries = << <<B, <<" ", "a">>>> >>
    /\ state.mode = ModeList
    /\ state.message = Some("Variable deleted")

\* C11: 'n' or Esc in Delete(K) mode sets the mode to List and changes no
\* other field: entries, current_index, scroll_offset, the input buffers and
\* the status message are as before.
C11_DeleteCancelFrame ==
    [][ (called' = <<"handle_delete_mode", CharKey("n")>>
            \/ called' = <<"handle_delete_mode", Key("Esc")>>)
        => /\ state.mode[1] = "Delete"
           /\ state' = [state EXCEPT !.mode = ModeList] ]_vars

\* a deletion declined on the second row, with a message on show and text
\* left in the buffers
C11_Declined ==
    /\ called = <<"handle_delete_mode", CharKey("n")>>
    /\ state.mode = ModeList
    /\ state.current_index = 1
    /\ state.message = Some("Variable added")
    /\ state.input_key # <<>>

\* C12: 'y' in Delete(K) mode with no entry named K leaves entries as they
\* are, posts no status message (message and expiry stay as they were) and
\* goes to List.
C12_StaleDeleteSilent ==
    [][ (called' = <<"handle_delete_mode", CharKey("y")>>
            /\ Named(state.entries, state.mode[2]) = {})
        => /\ state'.entries = state.entries
           /\ state'.message = state.message
           /\ state'.message_expiry = state.message_expiry
           /\ state'.mode = ModeList ]_vars

\* C13: for every entries list that has no entry named K, adding (K, v)
\* through Add mode and then, with no call but navigation in between, deleting
\* that entry through Delete mode with 'y' yields the entries list of before
\* the Add.
C13_AddDeleteRoundTrip ==
    [][ (called' = <<"handle_delete_mode", CharKey("y")>>
            /\ before # None
            /\ ~before[1][3]
            /\ state.mode = ModeDelete(before[1][2])
            /\ Named(before[1][1], before[1][2]) = {})
        => state'.entries = before[1][1] ]_vars

\* C13 as stated: the round trip restores every entries list, one that
\* already has an entry named K included.
C13_RoundTripOfEveryList ==
    [][ (called' = <<"handle_delete_mode", CharKey("y")>>
            /\ before # None
            /\ ~before[1][3]
            /\ state.mode = ModeDelete(before[1][2]))
        => state'.entries = before[1][1] ]_vars

\* A was added to a list that held B alone, selected and deleted again
C13_RoundTripped ==
    /\ called = <<"handle_delete_mode", CharKey("y")>>
    /\ before = Some(<< << <<B, <<" ", "a">>>> >>, A, TRUE >>)
    /\ state.entries = << <<B, <<" ", "a">>>> >>
    /\ state.current_index = 1
    /\ state.message = Some("Variable deleted")

C15_MessageLifetime ==
    /\ [][ (called' = <<"handle_input", KeyEvent("Press", CharKey("y"))>>
                /\ state.mode[1] = "Delete")
           => /\ state'.message = Some("Variable deleted")
              /\ state'.message_expiry = Some(now' + MessageSecs) ]_vars
    /\ [][ (state.message_expiry # None /\ now' <= state.message_expiry[1])
           => state'.message # None ]_vars
    /\ [][ (state.message_expiry # None /\ now' > state.message_expiry[1])
           => \/ state'.message = None
              \/ state'.message_expiry = Some(now' + MessageSecs) ]_vars
    /\ \A e \in 0..(MaxTime - 1) :
          (state.message_expiry = Some(e))
              ~> \/ state.message = None
                 \/ state.message_expiry # Some(e)
                 \/ state.should_quit

\* a confirmation (the list is no list of the source) has expired in a tick
\* without a key, while the Delete modal was open
C15_ExpiredInModal ==
    /\ called = <<"handle_input", NoEvent>>
    /\ state.mode[1] = "Delete"
    /\ Len(state.entries) = 1
    /\ state.entries[1][1] = B
    /\ state.message = None
    /\ now = MessageSecs + 1

\* a key press read by the browser's loop
Pressed(key) == <<"handle_events", KeyEvent("Press", key)>>

\* C16: under every sequence of Left, Right, Up, Down and reload key events,
\* value_scroll_offset is at least 0 and at most the length of the selected
\* entry's value (0 on an empty list); Left at 0 and Right at the length
\* change nothing.
C16_ValueScrollBounded ==
    /\ [](/\ im.value_scroll_offset >= 0
          /\ IF im.current_index < Len(im.entries)
             THEN im.value_scroll_offset
                      <= len(im.entries[im.current_index + 1][2])
             ELSE im.value_scroll_offset = 0)
    /\ [][ (called' = Pressed(Key("Left")) /\ im.value_scroll_offset = 0)
           => im' = im ]_vars
    /\ [][ (called' = Pressed(Key("Right"))
               /\ im.current_index < Len(im.entries)
               /\ im.value_scroll_offset
                      = len(im.entries[im.current_index + 1][2]))
           => im' = im ]_vars

\* Right was pressed until the offset stood at the end of a two-byte value
C16_AtTheEnd ==
    /\ called = Pressed(Key("Right"))
    /\ im.current_index = 0
    /\ im.entries # <<>>
    /\ im.entries[1][2] = <<"a", "b">>
    /\ im.value_scroll_offset = 2

\* C17: a Down or Up key event that changes current_index leaves
\* value_scroll_offset at 0.
C17_MoveResetsValueScroll ==
    [][ ((called' = Pressed(Key("Down")) \/ called' = Pressed(Key("Up")))
            /\ im'.current_index # im.current_index)
        => im'.value_scroll_offset = 0 ]_vars

\* the selection has moved down to the second row
C17_Moved ==
    /\ called = Pressed(Key("Down"))
    /\ im.current_index = 1
    /\ im.value_scroll_offset = 0
    /\ pc = "top"

\* C18: once the exit flag is set, run neither draws nor reads an event: the
\* only steps left are the call of run, if it was not called yet, and its
\* return; at the loop test with the flag set the next step returns Ok, and
\* that step is eventually taken.
C18_QuitEndsRun ==
    /\ [][ im.exit => (called' = <<"run">> \/ called' = <<"Ok">>) ]_vars
    /\ [][ (pc = "top" /\ im.exit) => (pc' = "ok" /\ im' = im) ]_vars
    /\ (pc = "top" /\ im.exit) ~> (pc = "ok")

\* run has returned Ok after a draw, a move down and Ctrl+Q
C18_Returned ==
    /\ pc = "ok"
    /\ called = <<"Ok">>
    /\ im.exit
    /\ im.visible_options = 12
    /\ im.current_index = 1

\* the quit key, pressed
PressedCtrlQ == <<"handle_input", KeyEvent("Press", CtrlKey("q"))>>

\* C19: should_quit is FALSE at the start; a call sets it only if it handles
\* a press of Ctrl+Q in List mode; once set it stays set; a press of Ctrl+Q
\* in Add, Edit or Delete mode leaves it as it is.
C19_QuitOnlyFromList ==
    /\ [][ (~state.should_quit /\ state'.should_quit)
           => (called' = PressedCtrlQ /\ state.mode = ModeList) ]_vars
    /\ [][ state.should_quit => state'.should_quit ]_vars
    /\ [][ (called' = PressedCtrlQ /\ state.mode # ModeList)
           => state'.should_quit = state.should_quit ]_vars

\* Ctrl+Q pressed in Add mode has typed a q into the key; no quit
C19_TypedQ ==
    /\ called = PressedCtrlQ
    /\ state.mode = ModeAdd
    /\ state.input_key = <<"q">>
    /\ ~state.should_quit
    /\ ~panicked

\* C20: a render leaves every field of the application state as it was
\* (entries, mode, current_index, scroll_offset, value_scroll_offset, the
\* window size visible_options, flags), whatever the size of the terminal.
C20_RenderKeepsState ==
    [][ called'[1] = "draw" => (im' = im /\ state' = state) ]_vars

\* C21: a row of the list shows a value longer than truncation_len as its
\* first truncation_len characters followed by "...", and a value of at most
\* truncation_len characters in full.
C21_TruncationByChars ==
    [][ called'[1] = "render"
        => \A i \in DOMAIN called'[3] :
              LET value == im.entries[im.scroll_offset + i][2]
              IN  called'[3][i] =
                    Some(IF Len(value) > im.truncation_len
                         THEN SubSeq(value, 1, im.truncation_len) \o Ellipsis
                         ELSE value) ]_vars

\* C22: the entries change only on a confirmed Add, a confirmed Edit, a
\* confirmed Delete and a Reload; every other key in every mode (navigation,
\* mode entry, Esc, Tab, cursor moves, Backspace, chars, a rejected Add,
\* unbound keys) leaves the sequence of entries as it was.
C22_EntriesFrame ==
    [][ LET confirmed ==
              \/ /\ called' = <<"handle_add_mode", Key("Enter")>>
                 /\ trim(state.input_key) # <<>>
              \/ called' = <<"handle_edit_mode", Key("Enter")>>
              \/ called' = <<"handle_delete_mode", CharKey("y")>>
              \/ called'[1] = "reload"
        IN  ~confirmed => state'.entries = state.entries ]_vars

\* an Add was rejected for its blank key, over a list that has an entry
C22_RejectedAdd ==
    /\ called = <<"handle_add_mode", Key("Enter")>>
    /\ state.mode = ModeAdd
    /\ trim(state.input_key) = <<>>
    /\ state.input_value # <<>>
    /\ state.entries # <<>>

\* C23: the List-mode key handler binds Right (and Left): a press of Right in
\* List mode, on a selected entry with a non-empty value, scrolls that value,
\* so the state after the press differs from the state before it.
C23_ListBindsRight ==
    [][ ( /\ called' = <<"handle_list_mode", Key("Right")>>
          /\ Selected(state)
          /\ state.entries[state.current_index + 1][2] # <<>> )
        => state' # state ]_vars

Commands == {"set", "add", "delete"}

\* C24: set, add and delete reject a key that is empty or contains a space
\* with a NameValidationError before touching anything: the environment is
\* as it was and no process is started.
C24_InvalidNameRejected ==
    [][ ( /\ called'[1] \in Commands
          /\ \/ called'[2].key = <<>>
             \/ \E i \in DOMAIN called'[2].key : called'[2].key[i] = " " )
        => /\ called'[3].kind = "NameValidationError"
           /\ env' = env
           /\ called'[4] = <<>> ]_vars

\* a set of a name with a space, with a process to run, was rejected while a
\* variable was set
C24_RejectedWithProcess ==
    /\ called[1] = "set"
    /\ called[2].key = <<"a", " ">>
    /\ called[2].process = Some("sh")
    /\ called[3].kind = "NameValidationError"
    /\ var(env, <<"a">>) # None

\* the value env::var gives add: that of an unset variable is empty
CurrentValue(e, key) == IF var(e, key) # None THEN var(e, key)[1] ELSE <<>>

\* C25: an add that sets the variable sets it to its current value followed
\* by the given value, an unset variable counting as empty; adding an empty
\* value leaves an existing value as it was.
C25_AddAppends ==
    [][ ( /\ called'[1] = "add"
          /\ called'[3].kind
                \notin {"NameValidationError", "CannotSetVariableGlobally"} )
        => /\ var(env', called'[2].key)
                 = Some(CurrentValue(env, called'[2].key) \o called'[2].value)
           /\ (called'[2].value = <<>> /\ var(env, called'[2].key) # None)
                 => var(env', called'[2].key) = var(env, called'[2].key) ]_vars

\* an add has appended to a variable that was set
C25_Appended ==
    /\ called[1] = "add"
    /\ called[2].key = <<"a">>
    /\ called[2].value = <<"a">>
    /\ called[3].ok
    /\ var(env, <<"a">>) = Some(<<"a", "a">>)

PressedCtrlR == <<"handle_input", KeyEvent("Press", CtrlKey("r"))>>

\* C27: a reload requested by Ctrl+R in List mode is performed within the
\* same tick: at the end of every tick reload_requested is false, the tick of
\* the request ends with the list reloaded, and a tick posts the message of a
\* reload only if the reload was requested in that tick.
C27_ReloadWithinTick ==
    [][ (called'[1] = "handle_input" /\ ~panicked')
        => LET requested == called' = PressedCtrlR /\ state.mode = ModeList
               posted == /\ state'.message = Some("List reloaded")
                         /\ state'.message_expiry = Some(now' + MessageSecs)
           IN  /\ ~state'.reload_requested
               /\ requested
                     => /\ posted
                        /\ state'.entries \in Sources
                        /\ state'.current_index = 0
                        /\ state'.scroll_offset = 0
               /\ ( /\ posted
                    /\ <<state.message, state.message_expiry>>
                          # <<state'.message, state'.message_expiry>> )
                     => requested ]_vars

\* the tick of a Ctrl+R, after the clock has advanced, has reloaded the list
C27_ReloadedInTick ==
    /\ called = PressedCtrlR
    /\ state.message = Some("List reloaded")
    /\ state.message_expiry = Some(now + MessageSecs)
    /\ ~state.reload_requested
    /\ state.entries \in Sources \ {<<>>}
    /\ now > 0

\* C28: the window of the vertical navigation is decoupled from the state:
\* whatever renders at different heights are interleaved with Down and Up, no
\* render changes the window the Down handler uses, and the selection stays
\* inside the window in effect, scroll_offset <= current_index <
\* scroll_offset + window.
C28_WindowDecoupled ==
    [][ /\ called'[1] = "draw" => im'.visible_options = im.visible_options
        /\ im'.entries # <<>>
              => /\ im'.scroll_offset <= im'.current_index
                 /\ im'.current_index < im'.scroll_offset + im'.visible_options
      ]_vars

\* the value of the selected entry of the browser
SelectedValue == im.entries[im.current_index + 1][2]

\* C29 (as claimed): the horizontal offset stays in the half-open range
\* [0, len(value)): on a selected entry with a non-empty value no sequence of
\* Right key events makes value_scroll_offset equal to len(value).
C29_HalfOpen ==
    (im.current_index < Len(im.entries) /\ SelectedValue # <<>>)
        => im.value_scroll_offset < len(SelectedValue)

\* C29 (amended): the horizontal offset is clamped to the closed range
\* [0, len(value)]: a Right key event on a selected entry adds one to
\* value_scroll_offset while it is below len(value) and leaves it alone at
\* len(value), so the offset can reach len(value) and never passes it.
C29_ClosedRange ==
    [][ (called' = Pressed(Key("Right")) /\ im.current_index < Len(im.entries))
        => /\ im'.value_scroll_offset =
                 Min(im.value_scroll_offset + 1, len(SelectedValue))
           /\ im'.value_scroll_offset <= len(SelectedValue) ]_vars

\* Right has brought the offset to the length of a non-empty selected value
C29_ReachedLen ==
    /\ called = Pressed(Key("Right"))
    /\ im.current_index < Len(im.entries)
    /\ SelectedValue # <<>>
    /\ im.value_scroll_offset = len(SelectedValue)
    /\ ~panicked

\* the offset after a Down step to `index`, snapping to a window of `window`
\* rows at `offset`
SnapDown(offset, index, window) ==
    IF index < offset \/ index >= offset + window THEN offset + 1 ELSE offset

\* the offset after an Up step to `index`
SnapUp(offset, index) == IF index < offset THEN index ELSE offset

\* C30: vertical scrolling snaps to the cursor: a Down step adds exactly one
\* to scroll_offset when the new current_index would fall outside
\* [scroll_offset, scroll_offset + window) and leaves it alone otherwise; an
\* Up step that moves current_index below scroll_offset sets scroll_offset to
\* the new current_index and leaves it alone otherwise. In the editor and in
\* the browser, each with the window of its Down handler.
C30_SnapToCursor ==
    /\ [][ called' = <<"handle_list_mode", Key("Down")>>
           => state'.scroll_offset =
                 SnapDown(state.scroll_offset, state'.current_index, visible)
         ]_vars
    /\ [][ called' = <<"handle_list_mode", Key("Up")>>
           => state'.scroll_offset =
                 SnapUp(state.scroll_offset, state'.current_index) ]_vars
    /\ [][ called' = <<"handle_key_event", Key("Down")>>
           => im'.scroll_offset =
                 SnapDown(im.scroll_offset, im'.current_index, BrowserWindow)
         ]_vars
    /\ [][ called' = <<"handle_key_event", Key("Up")>>
           => im'.scroll_offset = SnapUp(im.scroll_offset, im'.current_index)
         ]_vars

\* a Down of the editor has scrolled its list a second time, after the
\* browser's list has scrolled too
C30_ScrolledDown ==
    /\ called = <<"handle_list_mode", Key("Down")>>
    /\ state.scroll_offset = 2
    /\ state.current_index = state.scroll_offset + visible - 1
    /\ im.scroll_offset > 0

\* the fields of the browser that the navigation moves
Position(m) == <<m.current_index, m.scroll_offset, m.value_scroll_offset>>

\* C31: navigation at a boundary is a no-op: Down on the last index, Up on
\* index 0, and both on an empty list leave current_index, scroll_offset and
\* value_scroll_offset as they were; otherwise Down adds exactly one to
\* current_index and Up takes exactly one from it.
C31_BoundaryNoOp ==
    /\ [][ called' = Pressed(Key("Down"))
           => IF im.current_index + 1 < Len(im.entries)
              THEN im'.current_index = im.current_index + 1
              ELSE Position(im') = Position(im) ]_vars
    /\ [][ called' = Pressed(Key("Up"))
           => IF im.current_index > 0
              THEN im'.current_index = im.current_index - 1
              ELSE Position(im') = Position(im) ]_vars

\* Up was pressed on the first row while its value stood scrolled
C31_UpAtTop ==
    /\ called = Pressed(Key("Up"))
    /\ im.entries # <<>>
    /\ im.current_index = 0
    /\ im.value_scroll_offset = 1

\* C32: 'a' in List mode enters Add with a clean slate, whatever earlier Add
\* or Edit sessions left in the buffers: both buffers empty, both cursors 0,
\* the focus on the key; the entries and the selection are as they were.
C32_AddCleanSlate ==
    [][ called' = <<"handle_list_mode", CharKey("a")>>
        => /\ state'.mode = ModeAdd
           /\ state'.input_key = <<>>
           /\ state'.input_value = <<>>
           /\ state'.input_cursor_key = 0
           /\ state'.input_cursor_value = 0
           /\ state'.input_focus = "Key"
           /\ state'.entries = state.entries
           /\ state'.current_index = state.current_index
           /\ state'.scroll_offset = state.scroll_offset ]_vars

\* 'a' was pressed after a rejected Add had been cancelled
C32_AfterRejectedAdd ==
    /\ called = <<"handle_list_mode", CharKey("a")>>
    /\ state.message = Some("Key cannot be empty")
    /\ state.mode = ModeAdd
    /\ state.input_key = <<>>
    /\ state.input_value = <<>>
    /\ state.entries # <<>>

\* the buffers of the editor, their cursors and the focus
Buffers(s) ==
    <<s.input_key, s.input_value, s.input_cursor_key, s.input_cursor_value,
      s.input_focus>>

\* C33: in List mode with a selected entry (k, v), 'e' enters Edit(k) with the
\* value buffer equal to v and the value cursor at its end, and 'd' enters
\* Delete(k) without changing a buffer; with no selected entry (an empty list,
\* or current_index out of range) 'e' and 'd' leave the whole state as it was.
C33_EditDeleteEntry ==
    /\ [][ called' = <<"handle_list_mode", CharKey("e")>>
           => IF state.current_index < Len(state.entries)
              THEN /\ state'.mode
                         = ModeEdit(state.entries[state.current_index + 1][1])
                   /\ state'.input_value
                         = state.entries[state.current_index + 1][2]
                   /\ state'.input_cursor_value = len(state'.input_value)
              ELSE state' = state ]_vars
    /\ [][ called' = <<"handle_list_mode", CharKey("d")>>
           => IF state.current_index < Len(state.entries)
              THEN /\ state'.mode
                         = ModeDelete(state.entries[state.current_index + 1][1])
                   /\ Buffers(state') = Buffers(state)
              ELSE state' = state ]_vars

\* 'e' was pressed with the selection past the end of a non-empty list
C33_NothingSelected ==
    /\ called = <<"handle_list_mode", CharKey("e")>>
    /\ state.mode = ModeList
    /\ state.entries # <<>>
    /\ state.current_index >= Len(state.entries)

\* C34: List is the hub of the mode machine. The mode changes only from List
\* to Add ('a'), to Edit(k) ('e') or to Delete(k) ('d'), k the selected key,
\* and back to List from Add (Esc, or Enter with a key that is not blank),
\* from Edit (Enter, Esc) and from Delete ('y', 'n', Esc): no step leads from
\* one modal to another, and the key of Edit(k) or Delete(k) stays while the
\* modal is open.
C34_ListIsHub ==
    [][ state'.mode # state.mode
        => LET c == called'
               k == state.entries[state.current_index + 1][1]
           IN  \/ /\ state.mode = ModeList
                  /\ \/ c = <<"handle_list_mode", CharKey("a")>>
                           /\ state'.mode = ModeAdd
                     \/ c = <<"handle_list_mode", CharKey("e")>>
                           /\ Selected(state) /\ state'.mode = ModeEdit(k)
                     \/ c = <<"handle_list_mode", CharKey("d")>>
                           /\ Selected(state) /\ state'.mode = ModeDelete(k)
               \/ /\ state.mode = ModeAdd
                  /\ state'.mode = ModeList
                  /\ \/ c = <<"handle_add_mode", Key("Esc")>>
                     \/ c = <<"handle_add_mode", Key("Enter")>>
                           /\ trim(state.input_key) # <<>>
               \/ /\ state.mode[1] = "Edit"
                  /\ state'.mode = ModeList
                  /\ \/ c = <<"handle_edit_mode", Key("Enter")>>
                     \/ c = <<"handle_edit_mode", Key("Esc")>>
               \/ /\ state.mode[1] = "Delete"
                  /\ state'.mode = ModeList
                  /\ \/ c = <<"handle_delete_mode", CharKey("y")>>
                     \/ c = <<"handle_delete_mode", CharKey("n")>>
                     \/ c = <<"handle_delete_mode", Key("Esc")>> ]_vars

\* an edit with text in its buffer was cancelled back to List
C34_EditCancelled ==
    /\ called = <<"handle_edit_mode", Key("Esc")>>
    /\ state.mode = ModeList
    /\ state.input_value # <<>>
    /\ state.entries # <<>>

\* C35: only key presses reach the controller: a tick whose event is a key
\* release, a key repeat, a resize or no event at all leaves the mode, the
\* entries, the selection, the buffers and the quit flag as they were, even
\* when the key is Ctrl+Q.
C35_OnlyPressesDispatched ==
    [][ (called'[1] = "handle_input" /\ called'[2].kind # "Press")
        => /\ state'.mode = state.mode
           /\ state'.entries = state.entries
           /\ state'.current_index = state.current_index
           /\ state'.scroll_offset = state.scroll_offset
           /\ Buffers(state') = Buffers(state)
           /\ state'.should_quit = state.should_quit ]_vars

\* a repeat of Ctrl+Q arrived in List mode, and the editor runs on
C35_RepeatedCtrlQ ==
    /\ called = <<"handle_input", KeyEvent("Repeat", CtrlKey("q"))>>
    /\ state.mode = ModeList
    /\ state.entries # <<>>
    /\ ~state.should_quit

\* C36: a failure of the poll or of the read of an input event is propagated:
\* the tick returns the error and leaves the application state exactly as it
\* was, with no dispatch, no reload and no clearing of the message.
C36_IoErrorPropagated ==
    [][ (called'[1] = "handle_input" /\ called'[2] \in {PollError, ReadError})
        => /\ called'[3] = "Err"
           /\ state' = state ]_vars

\* the read failed in a tick that came after the expiry of a message, and the
\* message is still there
C36_FailedWithStaleMessage ==
    /\ called = <<"handle_input", ReadError, "Err">>
    /\ state.message # None
    /\ state.message_expiry # None
    /\ now > state.message_expiry[1]

\* the cursor of the buffer a typed char goes to
FocusedCursor(s) ==
    IF s.mode = ModeAdd /\ s.input_focus = "Key"
    THEN s.input_cursor_key ELSE s.input_cursor_value

\* the buffer that has not the focus, and its cursor
Unfocused(s) ==
    IF s.mode = ModeAdd /\ s.input_focus = "Key"
    THEN <<s.input_value, s.input_cursor_value>>
    ELSE <<s.input_key, s.input_cursor_key>>

\* C37: in Add and Edit mode a typed char is inserted at the focused cursor,
\* which advances by one, and Backspace removes the char before the focused
\* cursor, which moves back by one (a no-op at cursor 0); neither touches the
\* buffer that has not the focus, nor its cursor.
C37_TypeAndBackspace ==
    /\ [][ ( /\ called'[1] \in {"handle_add_mode", "handle_edit_mode"}
             /\ called'[2].code = "Char" )
           => /\ ~panicked'
              /\ Len(Focused(state')) = Len(Focused(state)) + 1
              /\ FocusedCursor(state') = FocusedCursor(state) + 1
              /\ Unfocused(state') = Unfocused(state) ]_vars
    /\ [][ ( /\ called'[1] \in {"handle_add_mode", "handle_edit_mode"}
             /\ called'[2].code = "Backspace" )
           => IF FocusedCursor(state) = 0
              THEN state' = state /\ ~panicked'
              ELSE /\ ~panicked'
                   /\ Len(Focused(state')) = Len(Focused(state)) - 1
                   /\ FocusedCursor(state') = FocusedCursor(state) - 1
                   /\ Unfocused(state') = Unfocused(state) ]_vars

\* C38: a load with a process that reads and parses its file, and that the
\* system lets through, has started the process exactly once, with every
\* variable of the file set in the environment the child inherited; a load
\* whose file cannot be read or parsed sets nothing and starts nothing
C38_LoadThenRunOnce ==
    [][ called'[1] = "load" =>
          LET args == called'[2]
              file == called'[3]
              spawned == called'[5]
          IN  /\ ( /\ file.content = "parsed"
                   /\ args.process = Some("sh")
                   /\ called'[4].ok )
                    => /\ Len(spawned) = 1
                       /\ \A k \in DOMAIN file.variables :
                             var(spawned[1].env, k) = Some(file.variables[k])
              /\ file.content # "parsed" => env' = env /\ spawned = <<>>
      ]_vars

\* some entry has key k
HasKey(s, k) == \E i \in DOMAIN s.entries : s.entries[i][1] = k

\* C39: in every state the event loop reaches, the key of an open Edit or
\* Delete modal is the key of at least one entry
C39_ModalKeyPresent ==
    state.mode[1] \in {"Edit", "Delete"} => HasKey(state, state.mode[2])

\* a Delete modal is open on a list that a reload brought in
C39_ModalAfterReload ==
    /\ state.mode[1] = "Delete"
    /\ HasKey(state, state.mode[2])
    /\ state.message = Some("List reloaded")
    /\ called[1] = "handle_input"

\* the slice entries[scroll_offset..end_index] of render_main_list is in
\* bounds on every terminal size
EntriesSliceInBounds ==
    \A area \in Areas :
       LET height == saturating_sub(main_list_height(area), 6)
           visible_height == saturating_sub(height, 2)
           end_index == Min(im.scroll_offset + visible_height, Len(im.entries))
       IN  im.scroll_offset <= end_index /\ end_index <= Len(im.entries)

\* the browser has scrolled
Scrolled == im.scroll_offset > 0

\* C40: in every state of the browser under run, scroll_offset is at most
\* the number of entries, the slice of entries the list renderer takes is in
\* bounds, and the list renderer does not fail on any terminal size
C40_RenderNeverFails ==
    /\ im.scroll_offset <= Len(im.entries)
    /\ EntriesSliceInBounds
    /\ \A area \in Areas : ~render_main_list_panics(im, area)

====
